---- MODULE Spec2Model ----
(***************************************************************************)
(* A model of kitsch-prompt:                                               *)
(*                                                                         *)
(*   - the `git status -z` parser of internal/gitutils/status.go           *)
(*     (statusWriter.Write, countStats), fed with a byte stream that is    *)
(*     cut into an arbitrary sequence of Write calls, and Stats() around   *)
(*     it;                                                                 *)
(*   - the common module post-processing of package modules                *)
(*     (executeModule): style lookup, template overlay, decoration;        *)
(*   - the block module's fan-out and fan-in, and the Environment's        *)
(*     memoized probes;                                                    *)
(*   - the username module, and config.LoadConfigFromFile.                 *)
(*                                                                         *)
(* Bytes are their integer codes, as in Go.                                *)
(***************************************************************************)
EXTENDS Integers, Sequences, FiniteSets, TLC

VARIABLES
    input,          \* the bytes `git status -z` writes to its stdout
    pos,            \* how many bytes of input have been passed to Write
    linePos,        \* statusWriter.linePos
    stats,          \* *statusWriter.stats (the GitStats of Stats())
    wholeRecords,   \* history: every Write so far ended on a record boundary
    calls,          \* number of executeModule calls of this render
    call,           \* the arguments and collaborator outcomes of the latest call
    result,         \* the ModuleResult the latest call returned
    warnings,       \* the messages passed to Environment.Warn, in order
    stdout,         \* what fmt.Printf wrote to standard output, in order
    children,       \* block module: each child's evaluation, by declared index
    finished,       \* block module: the indexes of the children, as they finished
    blockText,      \* block module: the assembled Text
    blockDone,      \* block module: Execute has returned
    callers,        \* Environment: each concurrent caller of a probe
    probes,         \* Environment: each probe's lock, memoized value, runs
    uinput,         \* username module: its configuration and what it read
    cfgFile,        \* config: the configuration file on disk
    loaded,         \* config: what the latest LoadConfigFromFile returned
    pathToGit,      \* Stats: GitUtils.pathToGit, "" when git was not found
    ret             \* Stats: what Stats() returned, once it has

parserVars == <<input, pos, linePos, stats, wholeRecords>>

moduleVars == <<calls, call, result, warnings, stdout>>

blockVars == <<children, finished, blockText, blockDone>>

envVars == <<callers, probes>>

userVars == <<uinput>>

configVars == <<cfgFile, loaded>>

gitVars == <<pathToGit, ret>>

vars == <<input, pos, linePos, stats, wholeRecords,
          calls, call, result, warnings, stdout,
          children, finished, blockText, blockDone,
          callers, probes, uinput, cfgFile, loaded,
          pathToGit, ret>>

\* Everything but the parser's, executeModule's, the block's, and the
\* Environment's state.
nonParserVars == <<gitVars, configVars, moduleVars, blockVars, envVars, userVars>>

nonModuleVars == <<gitVars, configVars, parserVars, blockVars, envVars, userVars>>

nonBlockVars == <<gitVars, configVars, parserVars, moduleVars, envVars, userVars>>

nonEnvVars == <<gitVars, configVars, parserVars, moduleVars, blockVars, userVars>>

nonUserVars == <<gitVars, parserVars, blockVars, envVars, configVars>>

nonGitVars == <<parserVars, configVars, moduleVars, blockVars, envVars, userVars>>

nonConfigVars == <<gitVars, parserVars, moduleVars, blockVars, envVars, userVars>>

----------------------------------------------------------------------------
(* Bounds *)

\* Largest number of records in a generated status stream.
MaxRecords == 1

\* Largest number of modules executed in one render.
MaxCalls == 2

\* Number of children of the block module.
NumChildren == 3

\* Number of concurrent callers of the Environment's probes.
NumCallers == 3

\* The longest path of the records that exercise the terminator wait.
MaxPathLen == 1

----------------------------------------------------------------------------
(* Byte codes compared by the parser *)

CharM == 77
CharA == 65
CharD == 68
CharR == 82
CharC == 67
CharU == 85
CharQuestion == 63
NUL == 0

----------------------------------------------------------------------------
(* GitStats and GitFileStats *)

GitFileStats == [Added |-> 0, Modified |-> 0, Deleted |-> 0]

GitStats == [Index |-> GitFileStats, Files |-> GitFileStats, Unmerged |-> 0]

\* countStats with the 'M' case bumping the wrong field.
countStatsWrongField(fs, x) ==
    CASE x = CharM -> [fs EXCEPT !.Deleted = @ + 1]
      [] x = CharA -> [fs EXCEPT !.Added = @ + 1]
      [] x = CharD -> [fs EXCEPT !.Deleted = @ + 1]
      [] x = CharR -> [fs EXCEPT !.Modified = @ + 1]
      [] x = CharC -> [fs EXCEPT !.Modified = @ + 1]
      [] OTHER -> fs

(* countStats: bump the counter of one GitFileStats that letter x selects;
   a letter the switch does not name changes nothing. *)
countStats(fs, x) ==
    CASE x = CharM -> [fs EXCEPT !.Modified = @ + 1]
      [] x = CharA -> [fs EXCEPT !.Added = @ + 1]
      [] x = CharD -> [fs EXCEPT !.Deleted = @ + 1]
      [] x = CharR -> [fs EXCEPT !.Modified = @ + 1]
      [] x = CharC -> [fs EXCEPT !.Modified = @ + 1]
      [] OTHER -> fs

\* classify with the unmerged branch falling through to the letter mapping.
classifyFallsThrough(st, x, y) ==
    IF (x = CharD /\ y = CharD) \/ (x = CharA /\ y = CharA)
          \/ x = CharU \/ y = CharU
    THEN [st EXCEPT !.Unmerged = @ + 1,
                    !.Index = countStats(@, x), !.Files = countStats(@, y)]
    ELSE IF x = CharQuestion
    THEN [st EXCEPT !.Files.Added = @ + 1]
    ELSE [st EXCEPT !.Index = countStats(@, x), !.Files = countStats(@, y)]

(* The if/else-if chain of Write that runs on the second byte of a record:
   x is Write's local variable, y the byte just read. *)
classify(st, x, y) ==
    IF (x = CharD /\ y = CharD) \/ (x = CharA /\ y = CharA)
          \/ x = CharU \/ y = CharU
    THEN [st EXCEPT !.Unmerged = @ + 1]
    ELSE IF x = CharQuestion
    THEN [st EXCEPT !.Files.Added = @ + 1]
    ELSE [st EXCEPT !.Index = countStats(@, x), !.Files = countStats(@, y)]

(* The for loop of Write with a newline taken for a terminator as well, as
   for `git status` without -z. *)
RECURSIVE WriteLoopNewlineEnds(_, _, _, _)
WriteLoopNewlineEnds(w, p, i, x) ==
    IF i > Len(p) THEN w
    ELSE IF w.linePos = 0
    THEN WriteLoopNewlineEnds([w EXCEPT !.linePos = @ + 1], p, i + 1, p[i])
    ELSE IF w.linePos = 1
    THEN WriteLoopNewlineEnds([linePos |-> w.linePos + 1,
                               stats |-> classify(w.stats, x, p[i])], p, i + 1, x)
    ELSE IF p[i] = NUL \/ p[i] = 10
    THEN WriteLoopNewlineEnds([w EXCEPT !.linePos = 0], p, i + 1, x)
    ELSE WriteLoopNewlineEnds([w EXCEPT !.linePos = @ + 1], p, i + 1, x)

(* The for loop of Write, from index i (1-based) on.  w is the statusWriter,
   [linePos, stats]; x is the local `var x byte`, which lives for one call. *)
RECURSIVE WriteLoop(_, _, _, _)
WriteLoop(w, p, i, x) ==
    IF i > Len(p) THEN w
    ELSE IF w.linePos = 0
    THEN WriteLoop([w EXCEPT !.linePos = @ + 1], p, i + 1, p[i])
    ELSE IF w.linePos = 1
    THEN WriteLoop([linePos |-> w.linePos + 1,
                    stats |-> classify(w.stats, x, p[i])], p, i + 1, x)
    ELSE IF p[i] = NUL
    THEN WriteLoop([w EXCEPT !.linePos = 0], p, i + 1, x)
    ELSE WriteLoop([w EXCEPT !.linePos = @ + 1], p, i + 1, x)

(* statusWriter.Write(p): `var x byte` starts at Go's zero value on every
   call; the result is the statusWriter after the call. *)
WriteCall(w, p) == WriteLoop(w, p, 1, 0)

----------------------------------------------------------------------------
(* The status streams git produces: records "XY path\0" *)

\* Status letters: M A D R C U ? and the letters the parser ignores,
\* space and '!'.
StatusLetters == {CharM, CharA, CharD, CharR, CharC, CharU, CharQuestion, 32, 33}

\* Sample paths: "f", and "U\n" (a path may hold any byte but NUL).
Paths == { <<102>>, <<CharU, 10>> }

Record(x, y, path) == <<x, y, 32>> \o path \o <<NUL>>

Records == { Record(x, y, path) : x \in StatusLetters, y \in StatusLetters, path \in Paths }

\* The streams of exactly n records, and of at most n records.
RECURSIVE StreamsOf(_)
StreamsOf(n) ==
    IF n = 0 THEN { <<>> }
    ELSE { s \o r : s \in StreamsOf(n - 1), r \in Records }

Streams(n) == UNION { StreamsOf(k) : k \in 0..n }

\* "M  file1\0?? file2\0UU file3\0"
ExampleStream ==
    <<77, 32, 32, 102, 105, 108, 101, 49, 0>> \o
    <<63, 63, 32, 102, 105, 108, 101, 50, 0>> \o
    <<85, 85, 32, 102, 105, 108, 101, 51, 0>>

----------------------------------------------------------------------------
(* Package modules: ModuleResult, the collaborators of executeModule, and
   executeModule itself. *)

\* styling.CharacterColors; the zero value is "unset".
UnsetColors == [FG |-> "", BG |-> ""]

\* A nil *styling.Style.
NilStyle == [name |-> "", start |-> UnsetColors, end |-> UnsetColors]

\* The styles of the registry: a plain color and a gradient whose first and
\* last characters differ.
Styles ==
    { [name |-> "red", start |-> [FG |-> "red", BG |-> ""], end |-> [FG |-> "red", BG |-> ""]],
      [name |-> "grad", start |-> [FG |-> "red", BG |-> ""], end |-> [FG |-> "blue", BG |-> ""]] }

\* The name modules pass to defaultStyle as their built-in style.
DefStyle == "red"

(* context.Styles.Get(styleStr): the outcomes of a lookup by exact name.
   A known name gives its style and a nil error; any other name gives an
   error, with a style value the caller must not rely on. *)
StylesGet(styleStr) ==
    IF \E s \in Styles : s.name = styleStr
    THEN { [style |-> s, err |-> ""] : s \in { t \in Styles : t.name = styleStr } }
    ELSE { [style |-> s, err |-> "unknown style " \o styleStr] :
              s \in {NilStyle} \cup { t \in Styles : t.name = DefStyle } }

(* style.ApplyGetColors(text): the decorated text and the colors of its
   first and last character. *)
ApplyGetColors(style, text) ==
    [text |-> "<" \o style.name \o ">" \o text \o "</" \o style.name \o ">",
     start |-> style.start, end |-> style.end]

(* modtemplate.CompileTemplate followed by modtemplate.TemplateToString:
   the outcomes for a template string.  Compilation fails, or evaluation
   returns a text and a nil error, or evaluation fails having produced
   some (maybe empty) partial text. *)
TemplateRuns(template) ==
    IF template = ""
    THEN { [compileErr |-> "", text |-> "", evalErr |-> ""] }
    ELSE { [compileErr |-> "unexpected EOF", text |-> "", evalErr |-> ""] }
         \cup { [compileErr |-> "", text |-> t, evalErr |-> e] :
                   t \in {"", "out"}, e \in {"", "no such field"} }

\* resolveStyle without the `style = nil` reset.
resolveStyleKeepsStyle(env, got) ==
    IF got.err # ""
    THEN [style |-> got.style, warnings |-> Append(env.warnings, got.err)]
    ELSE [style |-> got.style, warnings |-> env.warnings]

(* executeModule, the style lookup: on an error the style is dropped and
   the error is passed to Environment.Warn.  env is the Environment's
   [warnings, stdout]; got is what context.Styles.Get(styleStr) returned. *)
resolveStyle(env, got) ==
    IF got.err # ""
    THEN [style |-> NilStyle, warnings |-> Append(env.warnings, got.err)]
    ELSE [style |-> got.style, warnings |-> env.warnings]

\* renderTemplate without the `text = defaultText` reset after a failed
\* evaluation.
renderTemplateKeepsPartial(env, config, run, defaultText) ==
    IF config.Template = ""
    THEN [text |-> defaultText, warnings |-> env.warnings, stdout |-> env.stdout]
    ELSE IF run.compileErr # ""
    THEN [text |-> defaultText, warnings |-> env.warnings,
          stdout |-> Append(env.stdout, "Error compiling template: " \o run.compileErr)]
    ELSE IF run.evalErr # ""
    THEN [text |-> run.text,
          warnings |-> Append(env.warnings, "Error executing template:\n"
                                 \o config.Template \o "\n" \o run.evalErr),
          stdout |-> env.stdout]
    ELSE [text |-> run.text, warnings |-> env.warnings, stdout |-> env.stdout]

(* executeModule, the template overlay: text starts as defaultText; a
   configured template replaces it unless it fails to compile (printed with
   fmt.Printf) or to evaluate (passed to Environment.Warn, text reset). *)
renderTemplate(env, config, run, defaultText) ==
    IF config.Template = ""
    THEN [text |-> defaultText, warnings |-> env.warnings, stdout |-> env.stdout]
    ELSE IF run.compileErr # ""
    THEN [text |-> defaultText, warnings |-> env.warnings,
          stdout |-> Append(env.stdout, "Error compiling template: " \o run.compileErr)]
    ELSE IF run.evalErr # ""
    THEN [text |-> defaultText,
          warnings |-> Append(env.warnings, "Error executing template:\n"
                                 \o config.Template \o "\n" \o run.evalErr),
          stdout |-> env.stdout]
    ELSE [text |-> run.text, warnings |-> env.warnings, stdout |-> env.stdout]

\* applyStyle without the `text != ""` test.
applyStyleToEmpty(style, text) ==
    IF style # NilStyle
    THEN LET styled == ApplyGetColors(style, text)
         IN  [Text |-> styled.text, StartStyle |-> styled.start, EndStyle |-> styled.end]
    ELSE [Text |-> text, StartStyle |-> UnsetColors, EndStyle |-> UnsetColors]

(* executeModule, the decoration: startStyle and endStyle are declared
   unset and are assigned only when a style is applied. *)
applyStyle(style, text) ==
    IF style # NilStyle /\ text # ""
    THEN LET styled == ApplyGetColors(style, text)
         IN  [Text |-> styled.text, StartStyle |-> styled.start, EndStyle |-> styled.end]
    ELSE [Text |-> text, StartStyle |-> UnsetColors, EndStyle |-> UnsetColors]

(* executeModule(context, config, data, styleStr, defaultText): run is what
   the template engine does with config.Template.  Returns the ModuleResult
   together with the Environment's log after the call. *)
executeModule(env, got, config, run, data, defaultText) ==
    LET resolved == resolveStyle(env, got)
        rendered == renderTemplate([warnings |-> resolved.warnings, stdout |-> env.stdout],
                                   config, run, defaultText)
        styled == applyStyle(resolved.style, rendered.text)
    IN  [result |-> [Text |-> styled.Text,
                     Data |-> data,
                     StartStyle |-> styled.StartStyle,
                     EndStyle |-> styled.EndStyle],
         warnings |-> rendered.warnings,
         stdout |-> rendered.stdout]

(* defaultStyle(context, styleString, defStyle): the style for styleString,
   or the style for defStyle when styleString is empty or unknown.  The
   registry always holds defStyle, so the panic is not reached. *)
defaultStyle(env, got, styleString, defGot) ==
    [style |-> IF styleString = "" \/ got.err # "" THEN defGot.style ELSE got.style,
     warnings |-> IF got.err # "" THEN Append(env.warnings, got.err) ELSE env.warnings]

(* The block module: Execute runs every child in parallel and then
   assembles the results. *)

\* The text child i may produce: nothing, or its own letter once or twice.
ChildLetters == <<"A", "B", "C", "D", "E">>

ChildTexts(i) == { "", ChildLetters[i], ChildLetters[i] \o ChildLetters[i] }

\* The results in completion order (what collecting from a shared queue
\* would give) joined instead of the results in declared order.
RECURSIVE assembleInCompletionOrder(_, _, _)
assembleInCompletionOrder(results, order, i) ==
    IF i > Len(order) THEN ""
    ELSE results[order[i]].Text \o assembleInCompletionOrder(results, order, i + 1)

(* Fan-in: the children's Text joined by declared index, from child i on.
   order is the completion order, which the join does not read. *)
RECURSIVE assemble(_, _, _)
assemble(results, order, i) ==
    IF i > Len(results) THEN ""
    ELSE results[i].Text \o assemble(results, order, i + 1)

InitBlock ==
    /\ children = [i \in 1..NumChildren |-> [state |-> "waiting", Text |-> ""]]
    /\ finished = <<>>
    /\ blockText = ""
    /\ blockDone = FALSE

\* Fan-out: the block starts the evaluation of child i.
StartChild(i) ==
    /\ ~blockDone
    /\ children[i].state = "waiting"
    /\ children' = [children EXCEPT ![i].state = "running"]
    /\ UNCHANGED <<finished, blockText, blockDone, nonBlockVars>>

\* Child i's Execute returns; its result goes to slot i.
FinishChild(i, text) ==
    /\ children[i].state = "running"
    /\ children' = [children EXCEPT ![i] = [state |-> "done", Text |-> text]]
    /\ finished' = Append(finished, i)
    /\ UNCHANGED <<blockText, blockDone, nonBlockVars>>

\* The join: once every child has returned, the block assembles its Text.
AssembleBlock ==
    /\ ~blockDone
    /\ \A i \in 1..NumChildren : children[i].state = "done"
    /\ blockText' = assemble(children, finished, 1)
    /\ blockDone' = TRUE
    /\ UNCHANGED <<children, finished, nonBlockVars>>

NextBlock ==
    \/ \E i \in 1..NumChildren : StartChild(i)
    \/ \E i \in 1..NumChildren : \E text \in ChildTexts(i) : FinishChild(i, text)
    \/ AssembleBlock

----------------------------------------------------------------------------
(* The Environment's memoized probes: each probe is a lazy cell guarded by
   its own mutex; the first caller to hold the mutex runs the underlying
   read or subprocess, later callers read the cell. *)

\* Two distinct probes: the directory listing and a VCS query.
Probes == {"dir", "git"}

\* What the underlying read may return at the time it runs.
ProbeValues == {"v1", "v2"}

InitEnv ==
    /\ callers = [c \in 1..NumCallers |-> [pc |-> "idle", probe |-> "", seen |-> ""]]
    /\ probes = [p \in Probes |-> [locked |-> FALSE, filled |-> FALSE, value |-> "", runs |-> 0]]

\* A module calls probe p.
CallProbe(c, p) ==
    /\ callers[c].pc = "idle"
    /\ callers' = [callers EXCEPT ![c] = [pc |-> "waiting", probe |-> p, seen |-> ""]]
    /\ UNCHANGED <<probes, nonEnvVars>>

\* Taking the lock without waiting for it to be free.
AcquireUnguarded(c) ==
    /\ callers[c].pc = "waiting"
    /\ probes' = [probes EXCEPT ![callers[c].probe].locked = TRUE]
    /\ callers' = [callers EXCEPT ![c].pc = "locked"]
    /\ UNCHANGED nonEnvVars

\* The caller takes the mutex of its probe, once that mutex is free.
Acquire(c) ==
    /\ callers[c].pc = "waiting"
    /\ ~probes[callers[c].probe].locked
    /\ probes' = [probes EXCEPT ![callers[c].probe].locked = TRUE]
    /\ callers' = [callers EXCEPT ![c].pc = "locked"]
    /\ UNCHANGED nonEnvVars

\* Holding the mutex, the caller looks at the cell: filled or empty.
CheckCell(c) ==
    /\ callers[c].pc = "locked"
    /\ callers' = [callers EXCEPT ![c].pc =
                      IF probes[callers[c].probe].filled THEN "reading" ELSE "computing"]
    /\ UNCHANGED <<probes, nonEnvVars>>

\* Having found the cell empty, the caller runs the underlying read and
\* stores what it returned.
Compute(c, v) ==
    /\ callers[c].pc = "computing"
    /\ probes' = [probes EXCEPT ![callers[c].probe] =
                     [locked |-> @.locked, filled |-> TRUE, value |-> v, runs |-> @.runs + 1]]
    /\ callers' = [callers EXCEPT ![c].pc = "reading"]
    /\ UNCHANGED nonEnvVars

\* The caller reads the filled cell, releases the mutex and returns.
Release(c) ==
    /\ callers[c].pc = "reading"
    /\ callers' = [callers EXCEPT ![c] =
                      [pc |-> "done", probe |-> @.probe, seen |-> probes[@.probe].value]]
    /\ probes' = [probes EXCEPT ![callers[c].probe].locked = FALSE]
    /\ UNCHANGED nonEnvVars

NextEnv ==
    \/ \E c \in 1..NumCallers : \E p \in Probes : CallProbe(c, p)
    \/ \E c \in 1..NumCallers : Acquire(c)
    \/ \E c \in 1..NumCallers : CheckCell(c)
    \/ \E c \in 1..NumCallers : \E v \in ProbeValues : Compute(c, v)
    \/ \E c \in 1..NumCallers : Release(c)

----------------------------------------------------------------------------
\* The inputs of the modelled calls.
StyleStrs == {"red", "grad", "bogus"}

Templates == {"", "{{.Data.Name}}"}

DefaultTexts == {"", "jwalton"}

Datas == {"data1", "data2"}

NoResult == [Text |-> "", Data |-> "", StartStyle |-> UnsetColors, EndStyle |-> UnsetColors]

NoCall ==
    [styleStr |-> "", got |-> [style |-> NilStyle, err |-> ""],
     config |-> [Style |-> "", Template |-> ""],
     run |-> [compileErr |-> "", text |-> "", evalErr |-> ""],
     data |-> "", defaultText |-> ""]

InitModules ==
    /\ calls = 0
    /\ call = NoCall
    /\ result = NoResult
    /\ warnings = <<>>
    /\ stdout = <<>>

\* A GitUtils that found git, and a Stats() that has not returned.
NotReturned == [returned |-> FALSE, stats |-> GitStats, err |-> ""]

InitGit == pathToGit = "git" /\ ret = NotReturned

InitParser ==
    /\ pos = 0
    /\ linePos = 0
    /\ stats = GitStats
    /\ wholeRecords = TRUE

(* A module's Execute reaches executeModule with its style, default text
   and data. *)
ExecuteModule(styleStr, got, template, run, data, defaultText) ==
    /\ calls < MaxCalls
    /\ LET config == [Style |-> styleStr, Template |-> template]
           r == executeModule([warnings |-> warnings, stdout |-> stdout],
                              got, config, run, data, defaultText)
       IN  /\ result' = r.result
           /\ warnings' = r.warnings
           /\ stdout' = r.stdout
           /\ call' = [styleStr |-> styleStr, got |-> got, config |-> config,
                       run |-> run, data |-> data, defaultText |-> defaultText]
    /\ calls' = calls + 1
    /\ UNCHANGED nonModuleVars

NextModules ==
    \E styleStr \in StyleStrs, template \in Templates,
       data \in Datas, defaultText \in DefaultTexts :
        \E got \in StylesGet(styleStr), run \in TemplateRuns(template) :
            ExecuteModule(styleStr, got, template, run, data, defaultText)

----------------------------------------------------------------------------
(* The username module *)

\* The environment variables that mark an SSH session.
SSHVars == {"SSH_CLIENT", "SSH_CONNECTION", "SSH_TTY"}

\* context.Environment.Getenv(name): the empty string when name is not set.
Getenv(env, name) == env[name]

\* context.Environment.HasSomeEnv(names...): some variable of names is set.
HasSomeEnv(env, names) == \E n \in names : Getenv(env, n) # ""

(* usernameModuleData.Username(): the name read from USER or, when that is
   empty, the name of os/user's current user; osUser is "" when
   user.Current() fails. *)
Username(data, osUser) == IF data.username # "" THEN data.username ELSE osUser

\* Execute with ShowAlways left out of show.
UsernameExecuteIgnoresShowAlways(mod, globals, env, osUser) ==
    LET isRoot == globals.IsRoot
        isSSH == HasSomeEnv(env, SSHVars)
        show == isSSH \/ isRoot
        data == [username |-> Getenv(env, "USER"), IsRoot |-> isRoot,
                 IsSSH |-> isSSH, Show |-> show]
    IN  [data |-> data,
         style |-> IF show /\ isRoot /\ mod.RootStyle # "" THEN mod.RootStyle ELSE mod.Style,
         defaultText |-> IF show THEN Username(data, osUser) ELSE ""]

(* UsernameModule.Execute, up to its call of executeModule: the data, the
   style name and the default text it passes on. *)
UsernameExecute(mod, globals, env, osUser) ==
    LET isRoot == globals.IsRoot
        isSSH == HasSomeEnv(env, SSHVars)
        show == isSSH \/ isRoot \/ mod.ShowAlways
        data == [username |-> Getenv(env, "USER"), IsRoot |-> isRoot,
                 IsSSH |-> isSSH, Show |-> show]
    IN  [data |-> data,
         style |-> IF show /\ isRoot /\ mod.RootStyle # "" THEN mod.RootStyle ELSE mod.Style,
         defaultText |-> IF show THEN Username(data, osUser) ELSE ""]

\* The configurations of the username module and the environments it runs in.
UsernameModules ==
    [Style : {"red"}, Template : {""}, ShowAlways : BOOLEAN, RootStyle : {"", "grad"}]

Environments == [SSHVars \cup {"USER"} -> {"", "x"}]

OSUsers == {"", "jwalton"}

NoUser ==
    [mod |-> [Style |-> "", Template |-> "", ShowAlways |-> FALSE, RootStyle |-> ""],
     globals |-> [IsRoot |-> FALSE],
     env |-> [n \in SSHVars \cup {"USER"} |-> ""],
     osUser |-> ""]

InitUser == uinput = NoUser

\* The prompt runs a username module.
ExecuteUsername(mod, isRoot, env, osUser) ==
    /\ calls < MaxCalls
    /\ LET globals == [IsRoot |-> isRoot]
           u == UsernameExecute(mod, globals, env, osUser)
           config == [Style |-> mod.Style, Template |-> mod.Template]
       IN  \E got \in StylesGet(u.style), run \in TemplateRuns(config.Template) :
              LET r == executeModule([warnings |-> warnings, stdout |-> stdout],
                                     got, config, run, u.data, u.defaultText)
              IN  /\ result' = r.result
                  /\ warnings' = r.warnings
                  /\ stdout' = r.stdout
                  /\ call' = [styleStr |-> u.style, got |-> got, config |-> config,
                              run |-> run, data |-> u.data, defaultText |-> u.defaultText]
                  /\ uinput' = [mod |-> mod, globals |-> globals, env |-> env,
                                osUser |-> osUser]
    /\ calls' = calls + 1
    /\ UNCHANGED nonUserVars

NextUser ==
    \E mod \in UsernameModules, isRoot \in BOOLEAN, env \in Environments,
       osUser \in OSUsers :
        ExecuteUsername(mod, isRoot, env, osUser)

----------------------------------------------------------------------------
(* Package config: LoadConfigFromFile *)

\* errNoPrompt
errNoPrompt == "configuration is missing prompt"

\* A nil modules.Module, a nil *Config, and no call yet.
NoModule == "nil"

NilConfig == [isNil |-> TRUE, Colors |-> "", Prompt |-> NoModule]

NotLoaded == [called |-> FALSE, strict |-> FALSE, config |-> NilConfig, err |-> ""]

(* The configuration files: one that cannot be read, or YAML that is well
   formed, malformed, has a field Config does not know, or names a module
   type that does not exist; a well-formed file has some colors and a
   prompt module or none. *)
ConfigFiles ==
    [readErr : {"", "no such file"},
     yaml : {"ok", "malformed", "unknown field", "unknown module"},
     Colors : {"", "colors"},
     Prompt : {NoModule, "block", "username"}]

\* os.ReadFile(configFile)
ReadFile(file) == [data |-> file, err |-> file.readErr]

(* Config.LoadFromYaml(yamlData, strict): the decoder's error, and the
   Config as far as it was decoded. *)
LoadFromYaml(yamlData, strict) ==
    IF yamlData.yaml = "malformed"
    THEN [config |-> [isNil |-> FALSE, Colors |-> "", Prompt |-> NoModule],
          err |-> "yaml: did not find expected key"]
    ELSE IF yamlData.yaml = "unknown field" /\ strict
    THEN [config |-> [isNil |-> FALSE, Colors |-> yamlData.Colors, Prompt |-> NoModule],
          err |-> "yaml: field not found in type config.Config"]
    ELSE IF yamlData.yaml = "unknown module"
    THEN [config |-> [isNil |-> FALSE, Colors |-> yamlData.Colors, Prompt |-> NoModule],
          err |-> "unknown module type"]
    ELSE [config |-> [isNil |-> FALSE, Colors |-> yamlData.Colors, Prompt |-> yamlData.Prompt],
          err |-> ""]

\* LoadConfigFromFile without the test for a missing prompt.
LoadConfigFromFileUnchecked(configFile, strict) ==
    LET read == ReadFile(configFile)
        decoded == LoadFromYaml(read.data, strict)
    IN  IF read.err # "" THEN [config |-> NilConfig, err |-> read.err]
        ELSE IF decoded.err # "" THEN [config |-> NilConfig, err |-> decoded.err]
        ELSE [config |-> decoded.config, err |-> ""]

\* LoadConfigFromFile(configFile, strict): the (*Config, error) it returns.
LoadConfigFromFile(configFile, strict) ==
    LET read == ReadFile(configFile)
        decoded == LoadFromYaml(read.data, strict)
    IN  IF read.err # "" THEN [config |-> NilConfig, err |-> read.err]
        ELSE IF decoded.err # "" THEN [config |-> NilConfig, err |-> decoded.err]
        ELSE IF decoded.config.Prompt = NoModule
        THEN [config |-> NilConfig, err |-> errNoPrompt]
        ELSE [config |-> decoded.config, err |-> ""]

InitConfig ==
    /\ cfgFile = [readErr |-> "no such file", yaml |-> "ok", Colors |-> "", Prompt |-> NoModule]
    /\ loaded = NotLoaded

\* Nothing has run yet, the configuration apart.
InitIdle ==
    /\ input = <<>>
    /\ InitParser
    /\ InitModules
    /\ InitBlock
    /\ InitEnv
    /\ InitUser
    /\ InitGit

InitRender == InitIdle /\ InitConfig

SpecModules == InitRender /\ [][NextModules]_vars

SpecBlock == InitRender /\ [][NextBlock]_vars

SpecEnv == InitRender /\ [][NextEnv]_vars

SpecUser == InitRender /\ [][NextUser]_vars

\* Startup, with any configuration file on disk.
InitStartup ==
    /\ InitIdle
    /\ cfgFile \in ConfigFiles
    /\ loaded = NotLoaded

\* The command line loads the configuration file.
LoadConfig(strict) ==
    /\ LET r == LoadConfigFromFile(cfgFile, strict)
       IN  loaded' = [called |-> TRUE, strict |-> strict, config |-> r.config, err |-> r.err]
    /\ UNCHANGED <<cfgFile, nonConfigVars>>

NextConfig == \E strict \in BOOLEAN : LoadConfig(strict)

SpecConfig == InitStartup /\ [][NextConfig]_vars

----------------------------------------------------------------------------
(* Stats(): a fresh GitStats and a statusWriter at linePos 0, then the
   command's output arrives through Write in chunks of any size. *)

Init ==
    /\ input \in Streams(MaxRecords) \cup {ExampleStream}
    /\ InitParser
    /\ InitModules
    /\ InitBlock
    /\ InitEnv
    /\ InitUser
    /\ InitConfig
    /\ InitGit

Write(n) ==
    /\ pos + n <= Len(input)
    /\ LET p == SubSeq(input, pos + 1, pos + n)
           w == WriteCall([linePos |-> linePos, stats |-> stats], p)
       IN  /\ linePos' = w.linePos
           /\ stats' = w.stats
           /\ wholeRecords' = (wholeRecords /\ w.linePos = 0)
    /\ pos' = pos + n
    /\ UNCHANGED <<input, nonParserVars>>

Next == \E n \in 1..Len(input) : Write(n)

Spec == Init /\ [][Next]_vars

----------------------------------------------------------------------------
(* Streams for the parser's wait for the terminator: a record whose path is
   made of the bytes a path can confuse the parser with, alone or followed
   by a second record. *)

\* Newline, space, the status letters, and 'f'.
PathBytes == {10, 32, CharM, CharA, CharD, CharR, CharC, CharU, CharQuestion, 102}

\* The paths of exactly n bytes, and of 1 to n bytes.
RECURSIVE PathsOf(_)
PathsOf(n) ==
    IF n = 0 THEN { <<>> }
    ELSE { path \o <<b>> : path \in PathsOf(n - 1), b \in PathBytes }

PathsUpTo(n) == UNION { PathsOf(k) : k \in 1..n }

CycleStreams ==
    { Record(x, y, path) \o rest :
        x \in {CharM, CharQuestion, CharU, 32},
        y \in {CharM, CharQuestion, CharU, 32},
        path \in PathsUpTo(MaxPathLen),
        rest \in { <<>>, Record(CharA, CharD, <<102>>) } }

InitCycle ==
    /\ input \in CycleStreams
    /\ InitParser
    /\ InitModules
    /\ InitBlock
    /\ InitEnv
    /\ InitUser
    /\ InitConfig
    /\ InitGit

SpecCycle == InitCycle /\ [][Next]_vars

----------------------------------------------------------------------------
(* Stats() as a whole: exec.Command(pathToGit, "status", "-z") with a
   statusWriter as its Stdout, cmd.Run(), and `return stats, err`. *)

\* What git would write in full: nothing, the example, or one record.
StatusOutputs ==
    { <<>>, ExampleStream } \cup
    { Record(x, y, <<102>>) : x \in StatusLetters, y \in StatusLetters }

(* The errors cmd.Run() can return once `written` bytes of `output` have
   gone through Write: with no executable the command never starts; a
   started command exits with status 0 after all its output, or with
   another status after any part of it.  "" is a nil error. *)
RunErrors(path, output, written) ==
    IF path = "" THEN { "exec: no command" }
    ELSE { "exit status 128" } \cup (IF written = Len(output) THEN { "" } ELSE {})

\* `return stats, err`
StatsResult(st, err) == [returned |-> TRUE, stats |-> st, err |-> err]

InitStats ==
    /\ input \in StatusOutputs
    /\ InitParser
    /\ InitModules
    /\ InitBlock
    /\ InitEnv
    /\ InitUser
    /\ InitConfig
    /\ pathToGit \in {"", "git"}
    /\ ret = NotReturned

\* The running command writes the next n bytes of its output.
CommandWrites(n) ==
    /\ pathToGit # ""
    /\ ~ret.returned
    /\ Write(n)

\* cmd.Run() returns err and Stats returns.
RunReturns(err) ==
    /\ ~ret.returned
    /\ err \in RunErrors(pathToGit, input, pos)
    /\ ret' = StatsResult(stats, err)
    /\ UNCHANGED <<pathToGit, nonGitVars>>

NextStats ==
    \/ \E n \in 1..Len(input) : CommandWrites(n)
    \/ \E err \in {"", "exec: no command", "exit status 128"} : RunReturns(err)

SpecStats == InitStats /\ [][NextStats]_vars

----------------------------------------------------------------------------
(* Properties of the status parser *)

\* The whole stream has been written.
Done == pos = Len(input)

\* The positions of input where a record starts.
RecordStarts(s) == { i \in 1..Len(s) : i = 1 \/ s[i - 1] = NUL }

\* The number of records of a stream, and of those whose second letter is
\* among the first n bytes.
NumRecords(s) == Cardinality(RecordStarts(s))

NumClassified(s, n) == Cardinality({ i \in RecordStarts(s) : i + 1 <= n })

FileSum(fs) == fs.Added + fs.Modified + fs.Deleted

CounterSum(st) == FileSum(st.Index) + FileSum(st.Files) + st.Unmerged

IsUnmerged(x, y) ==
    (x = CharD /\ y = CharD) \/ (x = CharA /\ y = CharA) \/ x = CharU \/ y = CharU

IsUntracked(x, y) == x = CharQuestion /\ ~IsUnmerged(x, y)

\* Every record of the stream has letters satisfying Class.
AllRecords(s, Class(_, _)) == \A i \in RecordStarts(s) : Class(s[i], s[i + 1])

\* The counter a status letter stands for.
LetterField(c) ==
    CASE c \in {CharM, CharR, CharC} -> "Modified"
      [] c = CharA -> "Added"
      [] c = CharD -> "Deleted"
      [] OTHER -> "none"

\* The GitFileStats that the letters at offset k of every record add up to.
LetterCounts(s, k) ==
    [f \in {"Added", "Modified", "Deleted"} |->
        Cardinality({ i \in RecordStarts(s) : LetterField(s[i + k]) = f })]

(* C1: for every well-formed stream and every way of cutting it into Write
   calls, the GitStats after all the Writes equal the GitStats of one Write
   of the whole stream. *)
ChunkSplitInvariance ==
    Done => stats = WriteCall([linePos |-> 0, stats |-> GitStats], input).stats

(* C2, as stated: once the stream is consumed, the seven counters add up to
   the number of records (each record bumped exactly one counter). *)
SumEqualsRecords == Done => CounterSum(stats) = NumRecords(input)

(* C2, amended: a record bumps Unmerged alone, or at most one Index counter
   and at most one Files counter; so at any time Unmerged plus the Index
   counters, and Unmerged plus the Files counters, are each at most the
   number of records classified so far. *)
AtMostOnePerSide ==
    LET n == NumClassified(input, pos)
    IN  /\ stats.Unmerged + FileSum(stats.Index) <= n
        /\ stats.Unmerged + FileSum(stats.Files) <= n

\* A consumed stream whose every record was counted on both sides.
CountedOnBothSides ==
    /\ Done
    /\ NumRecords(input) > 0
    /\ CounterSum(stats) = 2 * NumRecords(input)

(* C3: the records "M  file1\0", "?? file2\0", "UU file3\0", written record
   by record (or several whole records at a time) into zeroed GitStats, end
   with Index.Modified = 1, Files.Added = 1, Unmerged = 1 and nothing else. *)
ExampleCounts ==
    (input = ExampleStream /\ Done /\ wholeRecords) =>
        stats = [Index |-> [Added |-> 0, Modified |-> 1, Deleted |-> 0],
                 Files |-> [Added |-> 1, Modified |-> 0, Deleted |-> 0],
                 Unmerged |-> 1]

\* The example stream has been written in whole records.
ExampleWritten == input = ExampleStream /\ Done /\ wholeRecords

(* C4: every record with letters DD, AA, U? or ?U bumps Unmerged by one and
   leaves the Index and Files counters alone: a stream of such records ends
   with Unmerged = number of records and all other counters 0. *)
UnmergedRule ==
    (Done /\ AllRecords(input, IsUnmerged)) =>
        stats = [GitStats EXCEPT !.Unmerged = NumRecords(input)]

(* C5: every record whose first letter is '?' (and that is not unmerged)
   bumps Files.Added by one and nothing else: a stream of such records ends
   with Files.Added = number of records and all other counters 0. *)
UntrackedRule ==
    (Done /\ AllRecords(input, IsUntracked)) =>
        stats = [GitStats EXCEPT !.Files.Added = NumRecords(input)]

\* Neither unmerged nor untracked.
IsPlain(x, y) == ~IsUnmerged(x, y) /\ x # CharQuestion

(* C6: for records neither unmerged nor untracked the first letter counts
   in Index and the second in Files, M R C as Modified, A as Added, D as
   Deleted, any other letter as nothing. *)
LetterMapping ==
    (Done /\ AllRecords(input, IsPlain)) =>
        /\ stats.Unmerged = 0
        /\ stats.Index = LetterCounts(input, 0)
        /\ stats.Files = LetterCounts(input, 1)

----------------------------------------------------------------------------
(* Properties of executeModule *)

\* The latest call's style lookup, template compilation, template
\* evaluation failed.
StyleFailed(c) == c.got.err # ""

CompileFailed(c) == c.config.Template # "" /\ c.run.compileErr # ""

EvalFailed(c) == c.config.Template # "" /\ c.run.compileErr = "" /\ c.run.evalErr # ""

\* The text before decoration: the template's output when a template is
\* configured and ran, the default text otherwise.
FinalText(c) ==
    IF c.config.Template # "" /\ c.run.compileErr = "" /\ c.run.evalErr = ""
    THEN c.run.text
    ELSE c.defaultText

\* The number of recoverable failures of a call.
Failures(c) ==
    (IF StyleFailed(c) THEN 1 ELSE 0) + (IF CompileFailed(c) THEN 1 ELSE 0)
        + (IF EvalFailed(c) THEN 1 ELSE 0)

\* This step is a call of executeModule.
Called == calls' = calls + 1

(* C7, as stated: when the style name does not resolve, a warning is
   recorded and the returned text (when there is any) is decorated with the
   fallback style, the one defaultStyle substitutes. *)
StyleFailureUsesFallback ==
    (calls > 0 /\ StyleFailed(call) /\ FinalText(call) # "") =>
        LET defGot == CHOOSE g \in StylesGet(DefStyle) : TRUE
            fallback == defaultStyle([warnings |-> <<>>, stdout |-> <<>>],
                                     call.got, call.styleStr, defGot).style
        IN  /\ \E i \in 1..Len(warnings) : warnings[i] = call.got.err
            /\ result.Text = ApplyGetColors(fallback, FinalText(call)).text

(* C7, amended: when the style name does not resolve, executeModule still
   returns a ModuleResult, the lookup error is the first warning the call
   records, and the text is returned without decoration (no fallback style)
   with StartStyle and EndStyle unset. *)
StyleFailureIsNotFatal ==
    [][(Called /\ StyleFailed(call'))
          => /\ Len(warnings') > Len(warnings)
             /\ warnings'[Len(warnings) + 1] = call'.got.err
             /\ result' = [Text |-> FinalText(call'), Data |-> call'.data,
                           StartStyle |-> UnsetColors, EndStyle |-> UnsetColors]]_vars

\* A call whose style lookup failed, with text to decorate and a style value
\* left over from the lookup.
StyleFailureSeen ==
    /\ calls > 0
    /\ StyleFailed(call)
    /\ call.got.style # NilStyle
    /\ FinalText(call) # ""
    /\ result.Text = FinalText(call)

(* C8: the text is decorated and StartStyle/EndStyle are set exactly when
   the style resolved and the final text is not empty; otherwise the text
   is returned as it is and both are unset. *)
DecoratedIffStyledAndNonEmpty ==
    calls > 0 =>
        IF ~StyleFailed(call) /\ FinalText(call) # ""
        THEN /\ result.Text = ApplyGetColors(call.got.style, FinalText(call)).text
             /\ result.Text # FinalText(call)
             /\ result.StartStyle = call.got.style.start
             /\ result.EndStyle = call.got.style.end
             /\ result.StartStyle # UnsetColors
             /\ result.EndStyle # UnsetColors
        ELSE /\ result.Text = FinalText(call)
             /\ result.StartStyle = UnsetColors
             /\ result.EndStyle = UnsetColors

\* A call with a resolved style and an empty final text: nothing is applied.
EmptyTextSeen ==
    /\ calls > 0
    /\ ~StyleFailed(call)
    /\ call.defaultText # ""
    /\ FinalText(call) = ""
    /\ result.Text = ""

(* C9: when a configured template fails to compile or to evaluate, the
   result's Text is built from the default text (decorated when a style
   resolved and the default text is not empty), Data is the data passed in,
   and no partial template output is used. *)
TemplateFailureFallsBack ==
    (calls > 0 /\ (CompileFailed(call) \/ EvalFailed(call))) =>
        /\ result.Text = IF ~StyleFailed(call) /\ call.defaultText # ""
                         THEN ApplyGetColors(call.got.style, call.defaultText).text
                         ELSE call.defaultText
        /\ result.Data = call.data

\* A call whose template failed in evaluation after producing partial output.
PartialOutputDropped ==
    /\ calls > 0
    /\ EvalFailed(call)
    /\ call.run.text # ""
    /\ call.defaultText # ""
    /\ ~StyleFailed(call)

(* C10: every recoverable failure of a call (style lookup, template
   compilation, template evaluation) causes exactly one Environment.Warn
   call, and the call writes nothing to standard output. *)
FailuresGoToWarn ==
    [][Called => /\ Len(warnings') = Len(warnings) + Failures(call')
                 /\ stdout' = stdout]_vars

----------------------------------------------------------------------------
(* Properties of the block module *)

\* The texts the children returned, joined in declared order.
RECURSIVE DeclaredOrderText(_)
DeclaredOrderText(i) ==
    IF i > NumChildren THEN ""
    ELSE children[i].Text \o DeclaredOrderText(i + 1)

(* C11: a block's Text is its children's Text in declared order, whatever
   order the children finished in, and it is assembled only when every
   child has finished. *)
BlockKeepsDeclaredOrder ==
    blockDone =>
        /\ \A i \in 1..NumChildren : children[i].state = "done"
        /\ Len(finished) = NumChildren
        /\ blockText = DeclaredOrderText(1)

\* A block assembled after its last child finished first and its first
\* child last, every child having produced text.
AssembledOutOfOrder ==
    /\ blockDone
    /\ finished[1] = NumChildren
    /\ finished[NumChildren] = 1
    /\ \A i \in 1..NumChildren : children[i].Text # ""

----------------------------------------------------------------------------
(* Properties of the Environment's probes *)

\* The callers of probe p that have returned.
Returned(p) == { c \in 1..NumCallers : callers[c].pc = "done" /\ callers[c].probe = p }

(* C12: however the callers of a probe interleave, the underlying read runs
   at most once, exactly once as soon as a caller has returned, every
   caller that returned saw the one memoized value, and a caller waiting
   for a probe whose mutex is free can take it whatever the other probes'
   mutexes are. *)
ProbeRunsOnce ==
    \A p \in Probes :
        /\ probes[p].runs <= 1
        /\ Returned(p) # {} => probes[p].runs = 1
        /\ \A c \in Returned(p) : callers[c].seen = probes[p].value
        /\ \A c \in 1..NumCallers :
              (callers[c].pc = "waiting" /\ callers[c].probe = p /\ ~probes[p].locked)
                  => ENABLED Acquire(c)

\* Every caller has returned, at least two of them from the same probe,
\* and both probes were used.
AllCallersReturned ==
    /\ \A c \in 1..NumCallers : callers[c].pc = "done"
    /\ \E c, d \in 1..NumCallers : c # d /\ callers[c].probe = callers[d].probe
    /\ \A p \in Probes : Returned(p) # {}

----------------------------------------------------------------------------
(* Properties of the username module *)

\* The user is root, or in an SSH session, or the module always shows.
MustShow(u) ==
    u.globals.IsRoot \/ (\E n \in SSHVars : u.env[n] # "") \/ u.mod.ShowAlways

\* The user's name: USER, or the operating system's answer without it.
NameOf(u) == IF u.env["USER"] # "" THEN u.env["USER"] ELSE u.osUser

(* C13: the username module reports Show and passes the username as default
   text exactly when the user is root, an SSH variable is set or ShowAlways
   is true; otherwise Show is false and the default text empty; RootStyle
   replaces Style exactly when the user is root and RootStyle is not
   empty. *)
UsernameVisibility ==
    calls > 0 =>
        /\ call.data.Show = MustShow(uinput)
        /\ call.data.IsRoot = uinput.globals.IsRoot
        /\ call.defaultText = (IF MustShow(uinput) THEN NameOf(uinput) ELSE "")
        /\ call.styleStr = (IF uinput.globals.IsRoot /\ uinput.mod.RootStyle # ""
                            THEN uinput.mod.RootStyle ELSE uinput.mod.Style)
        /\ result.Data = call.data

\* A user who is neither root nor on SSH, shown because of ShowAlways, with
\* a RootStyle that is not used.
ShownByShowAlways ==
    /\ calls > 0
    /\ ~uinput.globals.IsRoot
    /\ \A n \in SSHVars : uinput.env[n] = ""
    /\ uinput.mod.ShowAlways
    /\ uinput.mod.RootStyle # ""
    /\ call.defaultText # ""
    /\ call.styleStr = uinput.mod.Style

----------------------------------------------------------------------------
(* Properties of LoadConfigFromFile *)

\* The file can be read and decodes without error under loaded.strict.
Decodes(file, strict) ==
    /\ file.readErr = ""
    /\ file.yaml = "ok" \/ (file.yaml = "unknown field" /\ ~strict)

(* C14: LoadConfigFromFile returns a non-nil Config only when the file was
   read, decoded without error and has a prompt module; otherwise it
   returns nil with an error, errNoPrompt when only the prompt is missing. *)
ConfigNeedsPrompt ==
    loaded.called =>
        LET good == Decodes(cfgFile, loaded.strict) /\ cfgFile.Prompt # NoModule
        IN  /\ ~loaded.config.isNil <=> good
            /\ good => (loaded.err = "" /\ loaded.config.Prompt = cfgFile.Prompt)
            /\ ~good => (loaded.config = NilConfig /\ loaded.err # "")
            /\ (Decodes(cfgFile, loaded.strict) /\ cfgFile.Prompt = NoModule)
                  => loaded.err = errNoPrompt

\* A readable, well-formed file without a prompt has been loaded.
MissingPromptLoaded ==
    /\ loaded.called
    /\ Decodes(cfgFile, loaded.strict)
    /\ cfgFile.Prompt = NoModule
    /\ cfgFile.Colors # ""
    /\ loaded.err = errNoPrompt

----------------------------------------------------------------------------
(* Properties of Stats() *)

(* C15: whenever Stats reports an error, every counter of the GitStats it
   returns is 0. *)
ErrorMeansZeroStats ==
    (ret.returned /\ ret.err # "") => ret.stats = GitStats

----------------------------------------------------------------------------
(* Properties of the parser's states *)

\* The parser's state, by linePos.
ParserState(lp) ==
    IF lp = 0 THEN "awaiting-first-letter"
    ELSE IF lp = 1 THEN "awaiting-second-letter"
    ELSE "awaiting-terminator"

\* The number of bytes of s[1..n] after the last NUL among them.
Offset(s, n) ==
    LET nuls == { j \in 1..n : s[j] = NUL }
    IN  n - (IF nuls = {} THEN 0 ELSE CHOOSE j \in nuls : \A k \in nuls : k <= j)

\* The bytes a Write step consumes.
Consumed == { input[j] : j \in (pos + 1)..pos' }

\* linePos counts the bytes since the last terminator, so the state is
\* awaiting-first-letter exactly at the start and after a NUL.
CycleFollowsInput == linePos = Offset(input, pos)

\* While awaiting the terminator, a step without a NUL leaves the counters.
PathBytesLeaveCounters ==
    (linePos >= 2 /\ NUL \notin Consumed) =>
        (stats' = stats /\ ParserState(linePos') = "awaiting-terminator")

\* The counters change only in a step that consumes a second letter.
CountersChangeAtSecondLetter ==
    stats' # stats => \E i \in RecordStarts(input) : pos < i + 1 /\ i + 1 <= pos'

(* C16: the parser goes from awaiting-first-letter to awaiting-second-letter
   to awaiting-terminator and back to awaiting-first-letter only on NUL;
   while it awaits the terminator no other byte changes a counter, and
   counters change only at the step that consumes a second letter. *)
ParserStateCycle ==
    /\ [](CycleFollowsInput)
    /\ [][PathBytesLeaveCounters /\ CountersChangeAtSecondLetter]_vars

\* A status letter or a newline of a path has been skipped after a count.
PathLetterSkipped ==
    /\ linePos = 4
    /\ input[pos] \in {10, CharU, CharQuestion}
    /\ stats # GitStats

====
